---- MODULE Spec2Model ----
(***************************************************************************)
(* Model of extract_profiles.py: the Dispatcher (main), the per-chunk      *)
(* Worker (process_batch_chunk), the timeout-guarded fetch                 *)
(* (extract_profile_info_with_timeout and its helper thread                *)
(* extraction_worker) and the partition function split_links_into_chunks.  *)
(*                                                                         *)
(* The browser session is external: each call on it (launch, open, read,   *)
(* screenshot, recreation) may return, raise or never return.              *)
(***************************************************************************)
EXTENDS Integers, Sequences, FiniteSets, TLC

\* ------------------------------------------------------------------------
\* Program constants
\* ------------------------------------------------------------------------
NUM_CHROME_INSTANCES == 2
MAX_RETRIES_PER_LINK == 3

\* ------------------------------------------------------------------------
\* Bounds of the model
\* ------------------------------------------------------------------------
\* longest input link list given to main
MaxLinks == 3
\* longest chunk given to a single process_batch_chunk call
MaxChunk == 2
\* longest list and largest pool size given to split_links_into_chunks
MaxSplitLen == 5
MaxSplitN == 4

\* The link identifiers (URL strings); a list may repeat a link.
Links == {"a", "b"}

\* The page a fresh session shows (activate_cdp_mode("about:blank")).
BlankPage == "about:blank"

\* The eight fields of a profile record.
FieldNames ==
    {"Name", "Personal Phone", "Business Phone", "Email", "Address",
     "Business Name", "Ratings Count", "Ratings Average"}

\* The empty dict {}: "not found" / extraction failed.
EmptyRecord == <<>>

\* ------------------------------------------------------------------------
\* JSON values and Python subscripting
\* ------------------------------------------------------------------------
\* What json.loads returns: None, a scalar, or a dict with string keys.
None == [t |-> "null", v |-> "", m |-> <<>>]
JStr(x) == [t |-> "str", v |-> x, m |-> <<>>]
JObj(f) == [t |-> "obj", v |-> "", m |-> f]

\* The outcome of evaluating an expression: a value or a raised exception.
Ok(x) == [ok |-> TRUE, v |-> x, exc |-> ""]
Raise(e) == [ok |-> FALSE, v |-> None, exc |-> e]

\* r[k] in Python: KeyError on a dict without the key, TypeError on None and
\* on a string (the key is a string, never an index); an exception raised
\* while r was evaluated is the outcome.
Subscript(r, k) ==
    IF ~r.ok THEN r
    ELSE IF r.v.t # "obj" THEN Raise("TypeError")
    ELSE IF k \in DOMAIN r.v.m THEN Ok(r.v.m[k])
    ELSE Raise("KeyError")

RECURSIVE PathFrom(_, _)
\* r[k1][k2]...[kn], evaluated left to right.
PathFrom(r, keys) ==
    IF keys = <<>> THEN r ELSE PathFrom(Subscript(r, Head(keys)), Tail(keys))

\* str(x) inside an f-string.
Format(x) == IF x.t = "str" THEN x.v ELSE IF x.t = "null" THEN "None" ELSE "{...}"

\* ------------------------------------------------------------------------
\* extract_profile_info_from_json(json_data)
\* ------------------------------------------------------------------------
DisplayUser == <<"props", "pageProps", "displayUser">>

\* The subscripts behind displayUser that the try block of each field reads.
FieldPath ==
    [f \in FieldNames \ {"Address"} |->
        CASE f = "Name" -> <<"name">>
          [] f = "Personal Phone" -> <<"phoneNumbers", "cell">>
          [] f = "Business Phone" -> <<"phoneNumbers", "business">>
          [] f = "Email" -> <<"email">>
          [] f = "Business Name" -> <<"businessName">>
          [] f = "Ratings Count" -> <<"ratings", "count">>
          [] f = "Ratings Average" -> <<"ratings", "average">>]

AddressKeys == <<"address1", "city", "state", "postalCode">>

\* Lines 128-129: the four parts are read in order inside one f-string; the
\* first subscript that raises ends the evaluation.
AddressValue(json_data) ==
    LET business_address == PathFrom(Ok(json_data), DisplayUser \o <<"businessAddress">>)
        part == [i \in 1..4 |-> Subscript(business_address, AddressKeys[i])]
        failed == {i \in 1..4 : ~part[i].ok}
    IN  IF failed # {}
        THEN part[CHOOSE i \in failed : \A j \in failed : i <= j]
        ELSE Ok(JStr(<<Format(part[1].v), ", ", Format(part[2].v), ", ",
                       Format(part[3].v), " ", Format(part[4].v)>>))

\* The right-hand side of the assignment in the try block of field f.
FieldValue(json_data, f) ==
    IF f = "Address" THEN AddressValue(json_data)
    ELSE PathFrom(Ok(json_data), DisplayUser \o FieldPath[f])

\* Variant with one try block around the eight assignments: a KeyError in any
\* of them blanks the fields set after it.
extract_profile_info_from_json_SingleTry(json_data) ==
    LET r == [f \in FieldNames |-> FieldValue(json_data, f)]
    IN  IF \E f \in FieldNames : ~r[f].ok /\ r[f].exc # "KeyError"
        THEN Raise("TypeError")
        ELSE Ok([f \in FieldNames |->
                    IF \A g \in FieldNames : r[g].ok THEN r[f].v ELSE None])

\* Variant whose except blocks leave the field out of the dict.
extract_profile_info_from_json_OmitsMissing(json_data) ==
    LET r == [f \in FieldNames |-> FieldValue(json_data, f)]
    IN  IF \E f \in FieldNames : ~r[f].ok /\ r[f].exc # "KeyError"
        THEN Raise("TypeError")
        ELSE Ok([f \in {g \in FieldNames : r[g].ok} |-> r[f].v])

\* Lines 109-144: eight try blocks, each catching KeyError only and setting
\* its field to None; any other exception leaves the function.
extract_profile_info_from_json(json_data) ==
    LET r == [f \in FieldNames |-> FieldValue(json_data, f)]
    IN  IF \E f \in FieldNames : ~r[f].ok /\ r[f].exc # "KeyError"
        THEN Raise("TypeError")
        ELSE Ok([f \in FieldNames |-> IF r[f].ok THEN r[f].v ELSE None])

\* The __NEXT_DATA__ document of the page of link p: a profile without e-mail,
\* business phone and ratings.
PageDoc(p) ==
    JObj([k1 \in {"props"} |-> JObj([k2 \in {"pageProps"} |-> JObj([k3 \in {"displayUser"} |->
        JObj([k \in {"name", "phoneNumbers", "businessAddress", "businessName"} |->
            CASE k = "name" -> JStr(p)
              [] k = "phoneNumbers" -> JObj([c \in {"cell"} |-> JStr("cell")])
              [] k = "businessAddress" -> JObj([a \in {"address1", "city", "state", "postalCode"} |-> JStr(a)])
              [] k = "businessName" -> JStr("businessName")])])])])

\* ------------------------------------------------------------------------
\* Page sources: what sb.cdp.get_page_source() may return
\* ------------------------------------------------------------------------
\* A key that the document does not hold.
Absent == [t |-> "absent", v |-> "", m |-> <<>>]

\* The dict with the keys of c whose value is not Absent.
WithKeys(c) == JObj([k \in {x \in DOMAIN c : c[x] # Absent} |-> c[k]])

\* A scalar under key k: missing or a string.
ScalarAt(k) == {Absent, JStr(k)}

\* A nested dict under a key: missing, null, or a dict with any of the keys.
NestedOver(keys) ==
    {Absent, None} \cup {JObj([k \in S |-> JStr(k)]) : S \in SUBSET keys}

DisplayUsers ==
    {WithKeys([k \in {"name", "phoneNumbers", "email", "businessAddress",
                      "businessName", "ratings"} |->
                 CASE k = "name" -> n
                   [] k = "phoneNumbers" -> ph
                   [] k = "email" -> e
                   [] k = "businessAddress" -> ad
                   [] k = "businessName" -> bn
                   [] k = "ratings" -> r]) :
        n \in ScalarAt("name") \cup {None},
        ph \in NestedOver({"cell", "business"}),
        e \in ScalarAt("email"),
        ad \in NestedOver({"address1", "city", "state", "postalCode"}),
        bn \in ScalarAt("businessName"),
        r \in NestedOver({"count", "average"})}

\* {"props": {"pageProps": {"displayUser": du}}}, cut where a value is Absent.
Wrap(k, x) == WithKeys([y \in {k} |-> x])

\* The JSON documents: every displayUser above, and the documents whose chain
\* props / pageProps / displayUser is missing or null at some level.
Docs ==
    {Wrap("props", Wrap("pageProps", Wrap("displayUser", du))) :
        du \in DisplayUsers \cup {Absent, None}}
    \cup {Wrap("props", Wrap("pageProps", None)), Wrap("props", None),
          Wrap("props", Absent), None, JStr("text")}

\* A page source: without the script tag, with a script tag whose text is not
\* JSON, or with a script tag holding a JSON document.
NoSource == [kind |-> "none", doc |-> None]
PageSources ==
    {[kind |-> "no_block", doc |-> None], [kind |-> "malformed", doc |-> None]}
    \cup {[kind |-> "block", doc |-> d] : d \in Docs}

\* Line 57: json.loads(script_tag.string).
json_loads(h) == IF h.kind = "malformed" THEN Raise("JSONDecodeError") ELSE Ok(h.doc)

\* Lines 53-78: the body of the try block behind the page source, up to the
\* value it puts; an exception leaves the block.
ParseSource(h) ==
    IF h.kind = "no_block" THEN Ok(EmptyRecord)
    ELSE IF ~json_loads(h).ok THEN json_loads(h)
    ELSE extract_profile_info_from_json(json_loads(h).v)

\* Lines 53-83: what extraction_worker puts in result_queue; the handler of
\* line 80 puts {} for any exception.
ExtractionResult(h) == IF ParseSource(h).ok THEN ParseSource(h).v ELSE EmptyRecord

\* Lines 57-58 on the page of each link.
Profiles == [p \in Links |-> extract_profile_info_from_json(PageDoc(p)).v]

\* The record extracted from the structured-data block of the page of link p.
ProfileOf(p) == Profiles[p]

\* Python truthiness of a dict: `if profile_info:`.
Truthy(d) == DOMAIN d # {}

LinkResult(link, info) == [profile_link |-> link, profile_data |-> info]

\* All sequences over S of length 0..n.
SeqsUpTo(S, n) == UNION {[1..k -> S] : k \in 0..n}

RECURSIVE Concat(_)
\* Concatenation of a sequence of sequences, in order.
Concat(ss) == IF ss = <<>> THEN <<>> ELSE Head(ss) \o Concat(Tail(ss))

\* ------------------------------------------------------------------------
\* split_links_into_chunks(batch_links, num_chunks)
\* ------------------------------------------------------------------------
\* chunk i (1-based here, i-1 in the code) is batch_links[start:end]
ChunkStart(L, n, i) == (i - 1) * (Len(L) \div n)

ChunkEnd_NoRemainder(L, n, i) == i * (Len(L) \div n)

ChunkEnd_OffByOne(L, n, i) ==
    IF i = n \/ i * (Len(L) \div n) + 1 > Len(L)
    THEN Len(L)
    ELSE i * (Len(L) \div n) + 1

ChunkEnd(L, n, i) == IF i = n THEN Len(L) ELSE i * (Len(L) \div n)

split_links_into_chunks(L, n) ==
    [i \in 1..n |-> SubSeq(L, ChunkStart(L, n, i) + 1, ChunkEnd(L, n, i))]

\* ------------------------------------------------------------------------
\* State
\* ------------------------------------------------------------------------
VARIABLES
    \* main
    mpc,            \* position of main
    batch_links,    \* the input link list
    num_chunks,     \* the pool size handed to split_links_into_chunks
    link_chunks,    \* the chunks, one per Worker
    pending,        \* futures as_completed has not yielded yet
    all_results,    \* the LinkResults collected so far
    artifact,       \* the list handed to json.dump
    \* process_batch_chunk, one per chunk
    wpc,            \* position of the Worker
    idx,            \* index (1-based) of the link being processed
    retry_count,
    profile_info,
    chunk_results,
    \* extract_profile_info_with_timeout, the call in progress
    hpc,            \* position of the helper thread extraction_worker
    result_queue,
    \* the Worker's browser session
    page,           \* the page the session shows
    stale,          \* urls whose navigation, started by an abandoned helper,
                    \* is still in flight on the session
    \* history of the link being processed
    attempts,       \* calls of extract_profile_info made for the link
    refreshes,      \* session recreations started for the link
    outcome,        \* how the retry loop of the link ended
    \* helper threads abandoned by a timeout, per Worker
    abandoned,      \* whether helpers abandoned by a timeout are running
                    \* behind sb.cdp.open, their result not put yet
    \* the parsing step on its own
    html            \* the page source the helper parses (line 44); NoSource
                    \* where the page is known by its link only

mainVars == <<mpc, batch_links, num_chunks, link_chunks, pending, all_results, artifact>>
workerVars == <<wpc, idx, retry_count, profile_info, chunk_results>>
helperVars == <<hpc, result_queue>>
sessionVars == <<page, stale>>
historyVars == <<attempts, refreshes, outcome>>
orphanVars == <<abandoned>>
vars == <<mainVars, workerVars, helperVars, sessionVars, historyVars, orphanVars, html>>

Workers == DOMAIN link_chunks

\* The link the Worker w is processing (the loop variable `link`).
CurLink(w) == link_chunks[w][idx[w]]

\* A Worker whose future is done: process_batch_chunk returned, at line 218
\* ("done") or from the handler at line 223 ("fatal").
Returned(w) == wpc[w] \in {"done", "fatal"}

\* The Workers as ThreadPoolExecutor.submit leaves them: nothing run yet.
SubmitWorkers(chunks) ==
    /\ link_chunks' = chunks
    /\ wpc' = [w \in DOMAIN chunks |-> "start"]
    /\ idx' = [w \in DOMAIN chunks |-> 0]
    /\ retry_count' = [w \in DOMAIN chunks |-> 0]
    /\ profile_info' = [w \in DOMAIN chunks |-> EmptyRecord]
    /\ chunk_results' = [w \in DOMAIN chunks |-> <<>>]
    /\ hpc' = [w \in DOMAIN chunks |-> "none"]
    /\ result_queue' = [w \in DOMAIN chunks |-> <<>>]
    /\ page' = [w \in DOMAIN chunks |-> BlankPage]
    /\ stale' = [w \in DOMAIN chunks |-> {}]
    /\ attempts' = [w \in DOMAIN chunks |-> 0]
    /\ refreshes' = [w \in DOMAIN chunks |-> 0]
    /\ outcome' = [w \in DOMAIN chunks |-> "none"]
    /\ abandoned' = [w \in DOMAIN chunks |-> FALSE]

NoWorkers ==
    /\ link_chunks = <<>>
    /\ wpc = <<>>
    /\ idx = <<>>
    /\ retry_count = <<>>
    /\ profile_info = <<>>
    /\ chunk_results = <<>>
    /\ hpc = <<>>
    /\ result_queue = <<>>
    /\ page = <<>>
    /\ stale = <<>>
    /\ attempts = <<>>
    /\ refreshes = <<>>
    /\ outcome = <<>>
    /\ abandoned = <<>>

\* main before split_links_into_chunks, for every input list.
Init ==
    /\ html = NoSource
    /\ mpc = "start"
    /\ batch_links \in SeqsUpTo(Links, MaxLinks)
    /\ num_chunks = NUM_CHROME_INSTANCES
    /\ pending = {}
    /\ all_results = <<>>
    /\ artifact = <<>>
    /\ NoWorkers

\* ------------------------------------------------------------------------
\* process_batch_chunk
\* ------------------------------------------------------------------------
\* Lines 157-162: the for loop enters link i with a fresh retry counter.
BeginLink(w, i) ==
    /\ wpc' = [wpc EXCEPT ![w] = "fetch"]
    /\ idx' = [idx EXCEPT ![w] = i]
    /\ retry_count' = [retry_count EXCEPT ![w] = 0]
    /\ profile_info' = [profile_info EXCEPT ![w] = EmptyRecord]
    /\ attempts' = [attempts EXCEPT ![w] = 0]
    /\ refreshes' = [refreshes EXCEPT ![w] = 0]
    /\ outcome' = [outcome EXCEPT ![w] = "none"]

\* Lines 207-215: the retry loop is left; the result is appended, whatever it
\* is, and the Worker sleeps before the next link.
EndLink(w, info, oc) ==
    /\ wpc' = [wpc EXCEPT ![w] = "pause"]
    /\ profile_info' = [profile_info EXCEPT ![w] = info]
    /\ chunk_results' =
         [chunk_results EXCEPT ![w] = Append(@, LinkResult(CurLink(w), info))]
    /\ outcome' = [outcome EXCEPT ![w] = oc]

AttemptFailed_NoRefresh(w, info) ==
    /\ retry_count' = [retry_count EXCEPT ![w] = @ + 1]
    /\ IF retry_count[w] + 1 < MAX_RETRIES_PER_LINK
       THEN /\ wpc' = [wpc EXCEPT ![w] = "fetch"]
            /\ profile_info' = [profile_info EXCEPT ![w] = info]
            /\ UNCHANGED <<chunk_results, outcome>>
       ELSE EndLink(w, info, "exhausted")

AttemptFailed_EarlyExhaust(w, info) ==
    /\ retry_count' = [retry_count EXCEPT ![w] = @ + 1]
    /\ IF retry_count[w] + 1 < MAX_RETRIES_PER_LINK - 1
       THEN /\ wpc' = [wpc EXCEPT ![w] = "refresh"]
            /\ profile_info' = [profile_info EXCEPT ![w] = info]
            /\ UNCHANGED <<chunk_results, outcome>>
       ELSE EndLink(w, info, "exhausted")

\* Variant that recreates the session after the last attempt as well.
AttemptFailed_RefreshAtLimit(w, info) ==
    /\ retry_count' = [retry_count EXCEPT ![w] = @ + 1]
    /\ IF retry_count[w] + 1 <= MAX_RETRIES_PER_LINK
       THEN /\ wpc' = [wpc EXCEPT ![w] = "refresh"]
            /\ profile_info' = [profile_info EXCEPT ![w] = info]
            /\ UNCHANGED <<chunk_results, outcome>>
       ELSE EndLink(w, info, "exhausted")

\* Lines 173-177 and 188-191, 203-205: an attempt that gave no record (info is
\* the value profile_info holds then). The counter advances; below the limit
\* the Worker goes on to recreate the session, at the limit the loop ends.
AttemptFailed(w, info) ==
    /\ retry_count' = [retry_count EXCEPT ![w] = @ + 1]
    /\ IF retry_count[w] + 1 < MAX_RETRIES_PER_LINK
       THEN /\ wpc' = [wpc EXCEPT ![w] = "refresh"]
            /\ profile_info' = [profile_info EXCEPT ![w] = info]
            /\ UNCHANGED <<chunk_results, outcome>>
       ELSE EndLink(w, info, "exhausted")

\* Lines 154-155: SB(...) and activate_cdp_mode return.
LaunchOk(w) ==
    /\ wpc[w] = "start"
    /\ IF link_chunks[w] = <<>>
       THEN /\ wpc' = [wpc EXCEPT ![w] = "done"]
            /\ UNCHANGED <<idx, retry_count, profile_info, historyVars>>
       ELSE BeginLink(w, 1)
    /\ UNCHANGED <<html, orphanVars, mainVars, chunk_results, helperVars, sessionVars>>

\* Lines 154-155, 220-223: the launch raises; the handler returns the (empty)
\* chunk_results.
LaunchRaises(w) ==
    /\ wpc[w] = "start"
    /\ wpc' = [wpc EXCEPT ![w] = "fatal"]
    /\ UNCHANGED <<html, orphanVars, mainVars, idx, retry_count, profile_info, chunk_results,
                   helperVars, sessionVars, historyVars>>

\* Lines 154-155: the launch never returns.
LaunchHangs(w) ==
    /\ wpc[w] = "start"
    /\ wpc' = [wpc EXCEPT ![w] = "hung"]
    /\ UNCHANGED <<html, orphanVars, mainVars, idx, retry_count, profile_info, chunk_results,
                   helperVars, sessionVars, historyVars>>

\* Lines 164-169, 24-92: an attempt starts; extract_profile_info_with_timeout
\* starts the helper thread and blocks in result_queue.get.
StartAttempt(w) ==
    /\ wpc[w] = "fetch"
    /\ retry_count[w] < MAX_RETRIES_PER_LINK
    /\ wpc' = [wpc EXCEPT ![w] = "wait"]
    /\ hpc' = [hpc EXCEPT ![w] = "open"]
    /\ result_queue' = [result_queue EXCEPT ![w] = <<>>]
    /\ attempts' = [attempts EXCEPT ![w] = @ + 1]
    /\ UNCHANGED <<html, orphanVars, mainVars, idx, retry_count, profile_info, chunk_results,
                   sessionVars, refreshes, outcome>>

\* Lines 164-169, 188-205: the call raises into the Worker (the helper thread
\* cannot be started); profile_info keeps its value.
StartAttemptRaises(w) ==
    /\ wpc[w] = "fetch"
    /\ retry_count[w] < MAX_RETRIES_PER_LINK
    /\ attempts' = [attempts EXCEPT ![w] = @ + 1]
    /\ AttemptFailed(w, profile_info[w])
    /\ UNCHANGED <<html, orphanVars, mainVars, idx, helperVars, sessionVars, refreshes>>

\* Lines 92-93, 169-187: result_queue.get returns what the helper put.
ReceiveResult(w) ==
    /\ wpc[w] = "wait"
    /\ result_queue[w] # <<>>
    /\ result_queue' = [result_queue EXCEPT ![w] = <<>>]
    /\ IF Truthy(Head(result_queue[w]))
       THEN /\ EndLink(w, Head(result_queue[w]), "success")
            /\ UNCHANGED retry_count
       ELSE AttemptFailed(w, Head(result_queue[w]))
    /\ UNCHANGED <<html, orphanVars, mainVars, idx, hpc, sessionVars, attempts, refreshes>>

\* Lines 92-99: queue.Empty after timeout_seconds. The helper thread is left
\* running; the Worker calls sb.save_screenshot on the session. A helper
\* abandoned inside sb.cdp.open leaves its navigation in flight; one abandoned
\* behind it goes on to read the page and to put its result.
OperationTimeout(w) ==
    /\ wpc[w] = "wait"
    /\ result_queue[w] = <<>>
    /\ wpc' = [wpc EXCEPT ![w] = "shot"]
    /\ hpc' = [hpc EXCEPT ![w] = "none"]
    /\ stale' = [stale EXCEPT ![w] =
                   IF hpc[w] = "open" THEN @ \cup {CurLink(w)} ELSE @]
    /\ abandoned' = [abandoned EXCEPT ![w] = @ \/ hpc[w] = "loaded"]
    /\ UNCHANGED <<html, mainVars, idx, retry_count, profile_info, chunk_results,
                   result_queue, page, historyVars>>

\* Lines 98-103, 173-187: save_screenshot returns or raises (the raise is
\* caught at line 101); the call returns {}.
ScreenshotReturns(w) ==
    /\ wpc[w] = "shot"
    /\ AttemptFailed(w, EmptyRecord)
    /\ UNCHANGED <<html, orphanVars, mainVars, idx, helperVars, sessionVars, attempts, refreshes>>

\* Line 99: save_screenshot never returns.
ScreenshotHangs(w) ==
    /\ wpc[w] = "shot"
    /\ wpc' = [wpc EXCEPT ![w] = "hung"]
    /\ UNCHANGED <<html, orphanVars, mainVars, idx, retry_count, profile_info, chunk_results,
                   helperVars, sessionVars, historyVars>>

\* ------------------------------------------------------------------------
\* extraction_worker, the helper thread of the call in progress
\* ------------------------------------------------------------------------
\* Lines 80-83 and 60, 78: the helper puts its result and ends.
HelperPut(w, info) ==
    /\ result_queue' = [result_queue EXCEPT ![w] = Append(@, info)]
    /\ hpc' = [hpc EXCEPT ![w] = "none"]

\* Lines 35-38: sb.cdp.open(url) returns; the session shows the page of url.
HelperOpens(w) ==
    /\ hpc[w] = "open"
    /\ page' = [page EXCEPT ![w] = CurLink(w)]
    /\ hpc' = [hpc EXCEPT ![w] = "loaded"]
    /\ UNCHANGED <<html, orphanVars, mainVars, workerVars, result_queue, stale, historyVars>>

\* Lines 35, 80-83: sb.cdp.open raises; the helper puts {}.
HelperOpenRaises(w) ==
    /\ hpc[w] = "open"
    /\ HelperPut(w, EmptyRecord)
    /\ UNCHANGED <<html, orphanVars, mainVars, workerVars, sessionVars, historyVars>>

\* Lines 41-60: the page source is read from the session and holds a
\* structured-data block; the record extracted from the page shown is put.
HelperFound(w) ==
    /\ hpc[w] = "loaded"
    /\ page[w] \in Links
    /\ HelperPut(w, ProfileOf(page[w]))
    /\ UNCHANGED <<html, orphanVars, mainVars, workerVars, sessionVars, historyVars>>

\* Lines 41-57, 61-83: no structured-data block (line 78), or a session call
\* or json.loads raises (lines 80-83); the helper puts {}.
HelperNotFound(w) ==
    /\ hpc[w] = "loaded"
    /\ HelperPut(w, EmptyRecord)
    /\ UNCHANGED <<html, orphanVars, mainVars, workerVars, sessionVars, historyVars>>

\* Lines 35-66: a session call of the helper never returns.
HelperHangs(w) ==
    /\ hpc[w] \in {"open", "loaded"}
    /\ hpc' = [hpc EXCEPT ![w] = "hung"]
    /\ UNCHANGED <<html, orphanVars, mainVars, workerVars, result_queue, sessionVars, historyVars>>

\* Line 35, in a helper abandoned by a timeout: its navigation completes on
\* the session the Worker goes on using, and the helper goes on behind it.
StaleNavigation(w, u) ==
    /\ u \in stale[w]
    /\ ~Returned(w)
    /\ page' = [page EXCEPT ![w] = u]
    /\ stale' = [stale EXCEPT ![w] = @ \ {u}]
    /\ abandoned' = [abandoned EXCEPT ![w] = TRUE]
    /\ UNCHANGED <<html, mainVars, workerVars, helperVars, historyVars>>

\* Variant of AbandonedPut in which the helpers of all the calls of a Worker
\* share one result queue.
AbandonedPut_SharedQueue(w, info) ==
    /\ result_queue' = [result_queue EXCEPT ![w] = Append(@, info)]
    /\ UNCHANGED hpc

\* Lines 28, 60, 78, 83, in an abandoned helper: result_queue is the local of
\* the call that started the helper, so the put goes to the queue of that
\* finished call, an object nothing else refers to; the queue of the call in
\* progress is another object and is left as it is.
AbandonedPut(w, info) ==
    /\ info \in {EmptyRecord} \cup {ProfileOf(l) : l \in Links}
    /\ UNCHANGED helperVars

\* Lines 41-60, in an abandoned helper: it reads the page the session shows
\* now and puts the record extracted from it; other abandoned helpers may be
\* left (more).
AbandonedFound(w) ==
    /\ abandoned[w]
    /\ ~Returned(w)
    /\ page[w] \in Links
    /\ \E more \in BOOLEAN : abandoned' = [abandoned EXCEPT ![w] = more]
    /\ AbandonedPut(w, ProfileOf(page[w]))
    /\ UNCHANGED <<html, mainVars, workerVars, sessionVars, historyVars>>

\* Lines 41-57, 61-83, in an abandoned helper: no structured-data block, or a
\* session call or json.loads raises; it puts {}.
AbandonedNotFound(w) ==
    /\ abandoned[w]
    /\ ~Returned(w)
    /\ \E more \in BOOLEAN : abandoned' = [abandoned EXCEPT ![w] = more]
    /\ AbandonedPut(w, EmptyRecord)
    /\ UNCHANGED <<html, mainVars, workerVars, sessionVars, historyVars>>

\* ------------------------------------------------------------------------
\* process_batch_chunk: session recreation and the end of a link
\* ------------------------------------------------------------------------
\* Lines 178-184 and 193-199: quit, get_new_driver and activate_cdp_mode
\* return; the new session shows the blank page and the old one is gone.
RefreshOk(w) ==
    /\ wpc[w] = "refresh"
    /\ wpc' = [wpc EXCEPT ![w] = "fetch"]
    /\ refreshes' = [refreshes EXCEPT ![w] = @ + 1]
    /\ page' = [page EXCEPT ![w] = BlankPage]
    /\ stale' = [stale EXCEPT ![w] = {}]
    /\ UNCHANGED <<html, orphanVars, mainVars, idx, retry_count, profile_info, chunk_results,
                   helperVars, attempts, outcome>>

RefreshRaises_Escapes(w) ==
    /\ wpc[w] = "refresh"
    /\ wpc' = [wpc EXCEPT ![w] = "fatal"]
    /\ refreshes' = [refreshes EXCEPT ![w] = @ + 1]
    /\ UNCHANGED <<html, orphanVars, mainVars, idx, retry_count, profile_info, chunk_results,
                   helperVars, sessionVars, attempts, outcome>>

RefreshRaises_Retries(w) ==
    /\ wpc[w] = "refresh"
    /\ refreshes' = [refreshes EXCEPT ![w] = @ + 1]
    /\ AttemptFailed(w, profile_info[w])
    /\ UNCHANGED <<html, orphanVars, mainVars, idx, helperVars, sessionVars, attempts>>

\* Lines 178-187 and 193-202: a call of the recreation raises; the handler
\* breaks out of the retry loop. The old session is still there (quit raised)
\* or a new one is (activate_cdp_mode raised).
RefreshRaises(w) ==
    /\ wpc[w] = "refresh"
    /\ refreshes' = [refreshes EXCEPT ![w] = @ + 1]
    /\ EndLink(w, profile_info[w], "refresh_failed")
    /\ \/ UNCHANGED sessionVars
       \/ /\ page' = [page EXCEPT ![w] = BlankPage]
          /\ stale' = [stale EXCEPT ![w] = {}]
    /\ UNCHANGED <<html, orphanVars, mainVars, idx, retry_count, helperVars, attempts>>

\* Lines 180-182 and 195-197: a call of the recreation never returns.
RefreshHangs(w) ==
    /\ wpc[w] = "refresh"
    /\ wpc' = [wpc EXCEPT ![w] = "hung"]
    /\ UNCHANGED <<html, orphanVars, mainVars, idx, retry_count, profile_info, chunk_results,
                   helperVars, sessionVars, historyVars>>

\* Lines 215, 157-162: the pause is over and the chunk has a next link.
NextLink(w) ==
    /\ wpc[w] = "pause"
    /\ idx[w] < Len(link_chunks[w])
    /\ BeginLink(w, idx[w] + 1)
    /\ UNCHANGED <<html, orphanVars, mainVars, chunk_results, helperVars, sessionVars>>

\* Lines 215-218: the pause is over and the chunk is exhausted; the session
\* is closed and chunk_results returned (from line 223 if the closing raises).
WorkerReturns(w) ==
    /\ wpc[w] = "pause"
    /\ idx[w] = Len(link_chunks[w])
    /\ wpc' = [wpc EXCEPT ![w] = "done"]
    /\ UNCHANGED <<html, orphanVars, mainVars, idx, retry_count, profile_info, chunk_results,
                   helperVars, sessionVars, historyVars>>

\* ------------------------------------------------------------------------
\* One call of process_batch_chunk, for every chunk
\* ------------------------------------------------------------------------
InitWorker ==
    /\ html = NoSource
    /\ mpc = "none"
    /\ batch_links \in SeqsUpTo(Links, MaxChunk)
    /\ num_chunks = 1
    /\ link_chunks = <<batch_links>>
    /\ pending = {}
    /\ all_results = <<>>
    /\ artifact = <<>>
    /\ wpc = <<"start">>
    /\ idx = <<0>>
    /\ retry_count = <<0>>
    /\ profile_info = <<EmptyRecord>>
    /\ chunk_results = << <<>> >>
    /\ hpc = <<"none">>
    /\ result_queue = << <<>> >>
    /\ page = <<BlankPage>>
    /\ stale = << {} >>
    /\ attempts = <<0>>
    /\ refreshes = <<0>>
    /\ outcome = <<"none">>
    /\ abandoned = <<FALSE>>

NextWorker ==
    \/ \E w \in Workers : LaunchOk(w)
    \/ \E w \in Workers : LaunchRaises(w)
    \/ \E w \in Workers : LaunchHangs(w)
    \/ \E w \in Workers : StartAttempt(w)
    \/ \E w \in Workers : StartAttemptRaises(w)
    \/ \E w \in Workers : ReceiveResult(w)
    \/ \E w \in Workers : OperationTimeout(w)
    \/ \E w \in Workers : ScreenshotReturns(w)
    \/ \E w \in Workers : ScreenshotHangs(w)
    \/ \E w \in Workers : HelperOpens(w)
    \/ \E w \in Workers : HelperOpenRaises(w)
    \/ \E w \in Workers : HelperFound(w)
    \/ \E w \in Workers : HelperNotFound(w)
    \/ \E w \in Workers : HelperHangs(w)
    \/ \E w \in Workers : \E u \in Links : StaleNavigation(w, u)
    \/ \E w \in Workers : AbandonedFound(w)
    \/ \E w \in Workers : AbandonedNotFound(w)
    \/ \E w \in Workers : RefreshOk(w)
    \/ \E w \in Workers : RefreshRaises(w)
    \/ \E w \in Workers : RefreshHangs(w)
    \/ \E w \in Workers : NextLink(w)
    \/ \E w \in Workers : WorkerReturns(w)

SpecWorker == InitWorker /\ [][NextWorker]_vars

\* ------------------------------------------------------------------------
\* main
\* ------------------------------------------------------------------------
\* batch_links.index(x): the position of the first occurrence of x.
Index(L, x) == CHOOSE i \in 1..Len(L) : L[i] = x /\ \A j \in 1..(i - 1) : L[j] # x

\* Line 332: list.sort is stable; the key of a result is the index of the
\* first occurrence of its link in batch_links.
SortResults(results, L) ==
    Concat([k \in 1..Len(L) |->
              SelectSeq(results, LAMBDA r : Index(L, r.profile_link) = k)])

\* Lines 294-312: the list is split and one Worker per chunk is submitted.
MainStart ==
    /\ mpc = "start"
    /\ mpc' = "collect"
    /\ SubmitWorkers(split_links_into_chunks(batch_links, num_chunks))
    /\ pending' = 1..num_chunks
    /\ UNCHANGED <<html, batch_links, num_chunks, all_results, artifact>>

\* Variant of Collect in which the results of a future are appended twice.
Collect_AppendsTwice(w) ==
    /\ mpc = "collect"
    /\ w \in pending
    /\ Returned(w)
    /\ pending' = pending \ {w}
    /\ all_results' = all_results \o chunk_results[w] \o chunk_results[w]
    /\ IF pending = {w}
       THEN /\ artifact' = SortResults(all_results', batch_links)
            /\ mpc' = "written"
       ELSE UNCHANGED <<artifact, mpc>>
    /\ UNCHANGED <<html, orphanVars, batch_links, num_chunks, link_chunks, workerVars, helperVars,
                   sessionVars, historyVars>>

\* Lines 314-320, and 328-341 after the last future: as_completed yields a
\* finished future and its results are appended; when no future is pending
\* the results are sorted and written.
Collect(w) ==
    /\ mpc = "collect"
    /\ w \in pending
    /\ Returned(w)
    /\ pending' = pending \ {w}
    /\ all_results' = all_results \o chunk_results[w]
    /\ IF pending = {w}
       THEN /\ artifact' = SortResults(all_results', batch_links)
            /\ mpc' = "written"
       ELSE UNCHANGED <<artifact, mpc>>
    /\ UNCHANGED <<html, orphanVars, batch_links, num_chunks, link_chunks, workerVars, helperVars,
                   sessionVars, historyVars>>

\* Line 314: THREAD_TIMEOUT_SECONDS elapse with futures pending; as_completed
\* raises TimeoutError in the for statement, outside the try of line 316. The
\* exception leaves the with block, whose exit waits for the Workers.
Deadline ==
    /\ mpc = "collect"
    /\ pending # {}
    /\ mpc' = "unwinding"
    /\ UNCHANGED <<html, orphanVars, batch_links, num_chunks, link_chunks, pending, all_results,
                   artifact, workerVars, helperVars, sessionVars, historyVars>>

\* Line 303: every Worker has returned, executor.shutdown(wait=True) ends and
\* the TimeoutError leaves main; nothing is written.
MainRaises ==
    /\ mpc = "unwinding"
    /\ \A w \in Workers : Returned(w)
    /\ mpc' = "raised"
    /\ UNCHANGED <<html, orphanVars, batch_links, num_chunks, link_chunks, pending, all_results,
                   artifact, workerVars, helperVars, sessionVars, historyVars>>

Next ==
    \/ MainStart
    \/ (\E w \in Workers : Collect(w))
    \/ Deadline
    \/ MainRaises
    \/ NextWorker

Spec == Init /\ [][Next]_vars

\* ------------------------------------------------------------------------
\* One call of split_links_into_chunks, for every list and pool size
\* ------------------------------------------------------------------------
InitSplit ==
    /\ html = NoSource
    /\ mpc = "split"
    /\ batch_links \in SeqsUpTo(Links, MaxSplitLen)
    /\ num_chunks \in 1..MaxSplitN
    /\ pending = {}
    /\ all_results = <<>>
    /\ artifact = <<>>
    /\ NoWorkers

\* Line 294: link_chunks = split_links_into_chunks(batch_links, num_chunks)
SplitCall ==
    /\ mpc = "split"
    /\ mpc' = "split_done"
    /\ link_chunks' = split_links_into_chunks(batch_links, num_chunks)
    /\ UNCHANGED <<html, orphanVars, batch_links, num_chunks, pending, all_results, artifact,
                   workerVars, helperVars, sessionVars, historyVars>>

NextSplit == SplitCall

SpecSplit == InitSplit /\ [][NextSplit]_vars

\* ------------------------------------------------------------------------
\* The parsing step on its own: the helper of one call has read a page source
\* (line 44), any of PageSources; it parses it and puts its result, and the
\* call hands the result to the Worker.
\* ------------------------------------------------------------------------
InitExtract ==
    /\ html \in PageSources
    /\ mpc = "none"
    /\ batch_links = <<"a">>
    /\ num_chunks = 1
    /\ link_chunks = <<batch_links>>
    /\ pending = {}
    /\ all_results = <<>>
    /\ artifact = <<>>
    /\ wpc = <<"wait">>
    /\ idx = <<1>>
    /\ retry_count = <<0>>
    /\ profile_info = <<EmptyRecord>>
    /\ chunk_results = << <<>> >>
    /\ hpc = <<"loaded">>
    /\ result_queue = << <<>> >>
    /\ page = <<"a">>
    /\ stale = << {} >>
    /\ attempts = <<1>>
    /\ refreshes = <<0>>
    /\ outcome = <<"none">>
    /\ abandoned = <<FALSE>>

\* Lines 53-83: the helper parses the page source and puts the result.
HelperParses(w) ==
    /\ hpc[w] = "loaded"
    /\ html.kind # "none"
    /\ HelperPut(w, ExtractionResult(html))
    /\ UNCHANGED <<html, orphanVars, mainVars, workerVars, sessionVars, historyVars>>

NextExtract ==
    \/ \E w \in Workers : HelperParses(w)
    \/ \E w \in Workers : ReceiveResult(w)

SpecExtract == InitExtract /\ [][NextExtract]_vars

\* ------------------------------------------------------------------------
\* Properties of split_links_into_chunks (SpecSplit)
\* ------------------------------------------------------------------------
Abs(x) == IF x < 0 THEN -x ELSE x

\* C5: split_links_into_chunks(L, N) returns N chunks whose concatenation in
\* chunk order is L itself: no link is lost, duplicated or reordered. This
\* covers the empty list and lists shorter than N.
C5_ChunksConcatenateToInput ==
    mpc = "split_done" =>
        /\ Len(link_chunks) = num_chunks
        /\ Concat(link_chunks) = batch_links

\* C5 witness: a non-empty list shorter than the pool size has been split.
C5_Witness_ShortList ==
    /\ mpc = "split_done"
    /\ batch_links # <<>>
    /\ Len(batch_links) < num_chunks
    /\ Concat(link_chunks) = batch_links

\* C6 as stated: the sizes of any two chunks differ by at most one.
C6_Original_SizesWithinOne ==
    mpc = "split_done" =>
        \A i, j \in 1..num_chunks :
            Abs(Len(link_chunks[i]) - Len(link_chunks[j])) <= 1

\* C6 amended: every chunk but the last has Len(L) div N links and the last
\* has Len(L) div N + Len(L) mod N, so the remainder goes to the last chunk
\* and two sizes differ by at most Len(L) mod N: by at most one for the
\* configured pool size of 2, by up to N - 1 in general.
C6_RemainderInLastChunk ==
    mpc = "split_done" =>
        /\ \A i \in 1..(num_chunks - 1) :
               Len(link_chunks[i]) = Len(batch_links) \div num_chunks
        /\ Len(link_chunks[num_chunks]) =
               (Len(batch_links) \div num_chunks) + (Len(batch_links) % num_chunks)
        /\ \A i, j \in 1..num_chunks :
               Abs(Len(link_chunks[i]) - Len(link_chunks[j])) <= Len(batch_links) % num_chunks
        /\ num_chunks = NUM_CHROME_INSTANCES =>
               \A i, j \in 1..num_chunks :
                   Abs(Len(link_chunks[i]) - Len(link_chunks[j])) <= 1

\* C6 witness: five links split three ways; the last chunk holds three links,
\* the others one each.
C6_Witness_LastChunkLarger ==
    /\ mpc = "split_done"
    /\ num_chunks = 3
    /\ Len(batch_links) = 5
    /\ Len(link_chunks[3]) = 3
    /\ Len(link_chunks[1]) = 1

\* ------------------------------------------------------------------------
\* Properties of process_batch_chunk (SpecWorker)
\* ------------------------------------------------------------------------
LinksOf(results) == [i \in 1..Len(results) |-> results[i].profile_link]

Last(q) == q[Len(q)]

\* The Worker is inside the retry loop of link idx.
InRetryLoop(w) == wpc[w] \in {"fetch", "wait", "shot", "refresh"}

\* C1: after the launch, chunk_results always holds one LinkResult for each
\* link handled so far, in chunk order, and a Worker that returns has one for
\* every link of its chunk: no outcome of an attempt or of a recreation makes
\* it skip or drop a link.
C1_OneResultPerAssignedLink ==
    \A w \in Workers :
        /\ InRetryLoop(w) =>
               LinksOf(chunk_results[w]) = SubSeq(link_chunks[w], 1, idx[w] - 1)
        /\ wpc[w] = "pause" =>
               LinksOf(chunk_results[w]) = SubSeq(link_chunks[w], 1, idx[w])
        /\ (Returned(w) /\ (wpc[w] = "done" \/ idx[w] > 0)) =>
               LinksOf(chunk_results[w]) = link_chunks[w]

\* C1 witness: a Worker has returned two results, the first one empty (the
\* first link failed terminally) and the second one a record.
C1_Witness_LaterLinkAfterFailure ==
    \E w \in Workers :
        /\ wpc[w] = "done"
        /\ Len(link_chunks[w]) = 2
        /\ LinksOf(chunk_results[w]) = link_chunks[w]
        /\ ~Truthy(chunk_results[w][1].profile_data)
        /\ Truthy(chunk_results[w][2].profile_data)

\* C7 as stated: a recreation failure advances the retry counter by one and
\* the Worker keeps retrying the link while the counter is below the limit.
C7_Original_RecreationFailureAdvancesCounter ==
    [][\A w \in Workers :
         (wpc[w] = "refresh" /\ outcome'[w] = "refresh_failed") =>
            /\ retry_count'[w] = retry_count[w] + 1
            /\ retry_count'[w] < MAX_RETRIES_PER_LINK => InRetryLoop(w)']_vars

\* C7 amended: a step out of the recreation never crashes the Worker and never
\* changes the retry counter; it resumes fetching (the recreation succeeded),
\* hangs, or - the recreation raised - ends the retry loop of the link with
\* the counter below the limit and appends an empty LinkResult for the link.
C7_RecreationFailureEndsLink ==
    [][\A w \in Workers :
         (wpc[w] = "refresh" /\ wpc'[w] # "refresh") =>
            /\ wpc'[w] \in {"fetch", "hung", "pause"}
            /\ retry_count'[w] = retry_count[w]
            /\ wpc'[w] = "pause" =>
                  /\ retry_count'[w] < MAX_RETRIES_PER_LINK
                  /\ idx'[w] = idx[w]
                  /\ chunk_results'[w] =
                        Append(chunk_results[w], LinkResult(CurLink(w), EmptyRecord))]_vars

\* C7 witness: the retry loop of a link has ended by a recreation failure
\* after one failed attempt, with an empty result appended.
C7_Witness_RecreationFailed ==
    \E w \in Workers :
        /\ wpc[w] = "pause"
        /\ outcome[w] = "refresh_failed"
        /\ retry_count[w] = 1
        /\ Last(chunk_results[w]) = LinkResult(CurLink(w), EmptyRecord)

\* C8: when the retry loop of a link ends with a record after k failed
\* attempts (k < 3), the LinkResult of the link holds the record the call
\* returned, exactly k recreations were made for the link, and as long as the
\* link is the current one no further attempt or recreation is made.
C8_SuccessAfterFailures ==
    \A w \in Workers :
        outcome[w] = "success" =>
            /\ wpc[w] \in {"pause", "done"}
            /\ attempts[w] \in 1..MAX_RETRIES_PER_LINK
            /\ retry_count[w] = attempts[w] - 1
            /\ refreshes[w] = attempts[w] - 1
            /\ Truthy(profile_info[w])
            /\ Len(chunk_results[w]) = idx[w]
            /\ Last(chunk_results[w]) = LinkResult(CurLink(w), profile_info[w])

\* C8 witness: two failed attempts, two recreations, success on the third.
C8_Witness_ThirdAttemptSucceeds ==
    \E w \in Workers :
        /\ outcome[w] = "success"
        /\ attempts[w] = 3
        /\ refreshes[w] = 2
        /\ Truthy(Last(chunk_results[w]).profile_data)

\* C9 as stated: a link whose attempts all failed was attempted exactly
\* max-retries times.
C9_Original_ExactlyThreeAttempts ==
    \A w \in Workers :
        (wpc[w] = "pause" /\ ~Truthy(Last(chunk_results[w]).profile_data)) =>
            attempts[w] = MAX_RETRIES_PER_LINK

\* C9 amended: a link whose attempts all failed gets an empty LinkResult and
\* the Worker goes on with the next link; it was attempted exactly max-retries
\* times, with max-retries - 1 recreations, unless a recreation raised, which
\* ends the retry loop after fewer attempts.
C9_AllAttemptsFail ==
    /\ [](\A w \in Workers :
            (wpc[w] = "pause" /\ outcome[w] # "success") =>
               /\ Len(chunk_results[w]) = idx[w]
               /\ Last(chunk_results[w]) = LinkResult(CurLink(w), EmptyRecord)
               /\ outcome[w] \in {"exhausted", "refresh_failed"}
               /\ outcome[w] = "exhausted" =>
                     /\ attempts[w] = MAX_RETRIES_PER_LINK
                     /\ retry_count[w] = MAX_RETRIES_PER_LINK
                     /\ refreshes[w] = MAX_RETRIES_PER_LINK - 1
               /\ outcome[w] = "refresh_failed" =>
                     attempts[w] < MAX_RETRIES_PER_LINK)
    /\ [][\A w \in Workers :
            (wpc[w] = "pause" /\ wpc'[w] # "pause") =>
               IF idx[w] < Len(link_chunks[w])
               THEN wpc'[w] = "fetch" /\ idx'[w] = idx[w] + 1
               ELSE wpc'[w] = "done"]_vars

\* C9 witness: the first link used up its three attempts and the Worker is
\* fetching the second link.
C9_Witness_NextLinkAfterExhaustion ==
    \E w \in Workers :
        /\ wpc[w] = "wait"
        /\ idx[w] = 2
        /\ chunk_results[w] = <<LinkResult(link_chunks[w][1], EmptyRecord)>>

\* ------------------------------------------------------------------------
\* Scheduling: a thread that can take a step of its own takes it, and the
\* timeout of result_queue.get fires. Nothing makes the session answer.
\* ------------------------------------------------------------------------
WorkerOwnStep(w) ==
    \/ StartAttempt(w) \/ ReceiveResult(w) \/ OperationTimeout(w)
    \/ NextLink(w) \/ WorkerReturns(w)

FairSpecWorker == SpecWorker /\ WF_vars(WorkerOwnStep(1))

\* C10 as stated: when the fetch of a call never returns, the call still
\* returns to the Worker.
C10_Original_HungFetchStillReturns ==
    (wpc[1] = "wait" /\ hpc[1] = "hung") ~> (wpc[1] \in {"refresh", "pause", "fetch", "done"})

\* ------------------------------------------------------------------------
\* Properties of main (Spec)
\* ------------------------------------------------------------------------
\* The number of positions of the sequence q that hold x.
Count(q, x) == Cardinality({i \in 1..Len(q) : q[i] = x})

RECURSIVE IsSubsequence(_, _)
\* p can be obtained from q by deleting elements.
IsSubsequence(p, q) ==
    IF p = <<>> THEN TRUE
    ELSE IF q = <<>> THEN FALSE
    ELSE IF Head(p) = Head(q) THEN IsSubsequence(Tail(p), Tail(q))
    ELSE IsSubsequence(p, Tail(q))

\* C2 as stated: the artifact written holds exactly one LinkResult for every
\* input link, also when a chunk fails.
C2_Original_OneResultPerInputLink ==
    mpc = "written" =>
        /\ Len(artifact) = Len(batch_links)
        /\ \A l \in Links : Count(LinksOf(artifact), l) = Count(batch_links, l)

\* C3 as stated: the deadline elapsing with a Worker unfinished does not make
\* the Dispatcher raise; the artifact is still written.
C3_Original_DeadlineDoesNotRaise ==
    mpc \notin {"unwinding", "raised"}

\* C4 as stated: the links of the artifact are in the order of the input list,
\* and are the input list itself when every chunk returned its results.
C4_Original_ArtifactInInputOrder ==
    mpc = "written" =>
        /\ IsSubsequence(LinksOf(artifact), batch_links)
        /\ (\A w \in Workers : wpc[w] = "done") => LinksOf(artifact) = batch_links

\* ------------------------------------------------------------------------
\* Scheduling of main: the main thread takes the step it can take and the
\* timer of as_completed fires; the Workers are scheduled as in
\* FairSpecWorker. Nothing makes a session answer.
\* ------------------------------------------------------------------------
MainStep ==
    \/ MainStart
    \/ (\E w \in Workers : Collect(w))
    \/ Deadline
    \/ MainRaises

FairSpec ==
    /\ Spec
    /\ WF_vars(MainStep)
    /\ \A w \in 1..NUM_CHROME_INSTANCES : WF_vars(w \in Workers /\ WorkerOwnStep(w))

\* C11 as stated: whenever a Worker is blocked for ever in a session call, the
\* batch still reaches the hand-off of the artifact.
C11_Original_HungWorkerDoesNotStallBatch ==
    (\E w \in 1..NUM_CHROME_INSTANCES : w \in Workers /\ wpc[w] = "hung")
        ~> (mpc = "written")

\* C12 as stated: when one chunk's Worker completed normally and the other
\* chunk's Worker failed (the failure ends its call at line 220), main does not
\* raise while collecting them and the artifact is exactly the completed chunk's
\* results, in the order of the input.
C12_Original_FailedChunkOmitted ==
    \A w1, w2 \in Workers :
        (wpc[w1] = "done" /\ wpc[w2] = "fatal" /\ pending = {})
            => /\ mpc = "written"
               /\ artifact = chunk_results[w1]

\* The same statement for inputs whose links are pairwise distinct.
C12_DistinctLinks_FailedChunkOmitted ==
    (\A i, j \in 1..Len(batch_links) : batch_links[i] = batch_links[j] => i = j)
        => C12_Original_FailedChunkOmitted

\* ------------------------------------------------------------------------
\* main for other pool sizes: NUM_CHROME_INSTANCES is a constant of the module
\* read at lines 294 and 303; the same program with the constant set to any
\* value of 1..MaxPool, on a non-empty list of links.
\* ------------------------------------------------------------------------
MaxPool == 3
MaxPoolLinks == 2

InitPool ==
    /\ html = NoSource
    /\ mpc = "start"
    /\ batch_links \in SeqsUpTo(Links, MaxPoolLinks) \ {<<>>}
    /\ num_chunks \in 1..MaxPool
    /\ pending = {}
    /\ all_results = <<>>
    /\ artifact = <<>>
    /\ NoWorkers

SpecPool == InitPool /\ [][Next]_vars

\* C13: for every non-empty input and every pool size, the artifact never has
\* more entries than the input, every profile_link of the artifact is a link
\* of the input, and no link occurs more often in the artifact than in the
\* input.
C13_ArtifactWithinInput ==
    /\ Len(artifact) <= Len(batch_links)
    /\ \A i \in 1..Len(artifact) :
           /\ \E j \in 1..Len(batch_links) : artifact[i].profile_link = batch_links[j]
           /\ Count(LinksOf(artifact), artifact[i].profile_link)
                  <= Count(batch_links, artifact[i].profile_link)

C13_Witness_DuplicateLinksThreeChunks ==
    /\ mpc = "written"
    /\ num_chunks = 3
    /\ batch_links = <<"a", "a">>
    /\ Len(artifact) = 2

\* C14: what an abandoned helper produces is never used. The queue a call
\* reads changes only when a call creates it empty, when the helper of the
\* call in progress puts its one result, and when the call takes that result;
\* a call that timed out hands {} to the Worker; and a call that waits can
\* always time out, whatever the abandoned helpers do.
C14_QueueStep(w) ==
    /\ result_queue'[w] # result_queue[w] =>
           \/ wpc[w] = "fetch" /\ wpc'[w] = "wait" /\ result_queue'[w] = <<>>
           \/ /\ wpc[w] = "wait" /\ wpc'[w] = "wait"
              /\ hpc[w] \in {"open", "loaded"} /\ hpc'[w] = "none"
              /\ result_queue[w] = <<>> /\ Len(result_queue'[w]) = 1
           \/ wpc[w] = "wait" /\ wpc'[w] # "wait" /\ result_queue'[w] = <<>>
    /\ (wpc[w] = "shot" /\ wpc'[w] \notin {"shot", "hung"}) =>
           /\ profile_info'[w] = EmptyRecord
           /\ outcome'[w] # "success"

C14_AbandonedResultNeverUsed ==
    /\ [][\A w \in Workers : Workers' = Workers => C14_QueueStep(w)]_vars
    /\ [](\A w \in Workers :
              (wpc[w] = "wait" /\ result_queue[w] = <<>>) => ENABLED OperationTimeout(w))

\* A later call succeeds with its own helper's record while helpers abandoned
\* by earlier timeouts are still running or have a navigation in flight.
C14_Witness_SuccessWhileAbandonedRuns ==
    \E w \in Workers :
        /\ wpc[w] = "pause"
        /\ outcome[w] = "success"
        /\ abandoned[w]
        /\ Last(chunk_results[w]).profile_data = ProfileOf(Last(chunk_results[w]).profile_link)

\* C15 as stated: the result handed to the Worker is {} for a page without
\* structured-data block and for a block of malformed JSON, it is a record
\* for a block of valid JSON, and the helper always delivers a result.
C15_Original_ExtractionTotal ==
    \A w \in Workers :
        /\ hpc[w] = "none" => (wpc[w] = "wait" <=> Len(result_queue[w]) = 1)
        /\ wpc[w] # "wait" =>
               IF html.kind = "block"
               THEN DOMAIN profile_info[w] = FieldNames /\ outcome[w] = "success"
               ELSE profile_info[w] = EmptyRecord /\ wpc[w] = "refresh"

\* The part of C15 about pages that yield "not found", and valid blocks whose
\* chain of dicts is not cut by a null or a scalar.
C15_NotFoundAndNoRaise ==
    \A w \in Workers :
        /\ hpc[w] = "none" => (wpc[w] = "wait" <=> Len(result_queue[w]) = 1)
        /\ wpc[w] # "wait" =>
               IF html.kind = "block" /\ ParseSource(html).ok
               THEN DOMAIN profile_info[w] = FieldNames /\ outcome[w] = "success"
               ELSE profile_info[w] = EmptyRecord /\ wpc[w] = "refresh"

RECURSIVE HasPath(_, _)
\* Every key of the path is present, each in a dict.
HasPath(x, keys) ==
    IF keys = <<>> THEN TRUE
    ELSE /\ x.t = "obj"
         /\ Head(keys) \in DOMAIN x.m
         /\ HasPath(x.m[Head(keys)], Tail(keys))

RECURSIVE ValueAt(_, _)
ValueAt(x, keys) == IF keys = <<>> THEN x ELSE ValueAt(x.m[Head(keys)], Tail(keys))

\* The only defect of the document is absent keys: whatever is present where
\* a dict is expected is a dict.
AbsentKeysOnly(doc) ==
    /\ doc.t = "obj"
    /\ \A q \in {<<"props">>, <<"props", "pageProps">>, DisplayUser,
                 DisplayUser \o <<"phoneNumbers">>, DisplayUser \o <<"businessAddress">>,
                 DisplayUser \o <<"ratings">>} :
           HasPath(doc, q) => ValueAt(doc, q).t = "obj"

\* The value the source document holds for field f, null when a key of its
\* path is absent.
SourceValue(doc, f) ==
    IF f = "Address"
    THEN IF \A i \in 1..4 : HasPath(doc, DisplayUser \o <<"businessAddress", AddressKeys[i]>>)
         THEN LET a == ValueAt(doc, DisplayUser \o <<"businessAddress">>).m
              IN  JStr(<<Format(a["address1"]), ", ", Format(a["city"]), ", ",
                         Format(a["state"]), " ", Format(a["postalCode"])>>)
         ELSE None
    ELSE IF HasPath(doc, DisplayUser \o FieldPath[f])
         THEN ValueAt(doc, DisplayUser \o FieldPath[f])
         ELSE None

\* C16: for a parsed document with any subset of its keys absent, the record
\* put by the helper holds, for each of the eight fields on its own, the
\* source value when the key path of the field is present and null when it is
\* broken.
C16_FieldsDecidedIndependently ==
    \A w \in Workers :
        (html.kind = "block" /\ AbsentKeysOnly(html.doc) /\ result_queue[w] # <<>>)
            => /\ DOMAIN Head(result_queue[w]) = FieldNames
               /\ \A f \in FieldNames :
                      Head(result_queue[w])[f] = SourceValue(html.doc, f)

\* A record with present and null fields side by side: no e-mail, one of the
\* two phones, an address cut by a missing city.
C16_Witness_MixedRecord ==
    \E w \in Workers :
        /\ html.kind = "block" /\ AbsentKeysOnly(html.doc)
        /\ HasPath(html.doc, DisplayUser \o <<"businessAddress", "address1">>)
        /\ result_queue[w] # <<>>
        /\ DOMAIN Head(result_queue[w]) = FieldNames
        /\ Head(result_queue[w])["Name"] = JStr("name")
        /\ Head(result_queue[w])["Email"] = None
        /\ Head(result_queue[w])["Personal Phone"] = JStr("cell")
        /\ Head(result_queue[w])["Business Phone"] = None
        /\ Head(result_queue[w])["Address"] = None
        /\ Head(result_queue[w])["Ratings Average"] = JStr("average")

\* C17: every profile_data a Worker holds or has appended is the empty record
\* or a record with all eight fields, whatever attempts, failures and retries
\* came before.
C17_RecordNeverPartial ==
    \A w \in Workers :
        /\ DOMAIN profile_info[w] \in {{}, FieldNames}
        /\ \A i \in 1..Len(chunk_results[w]) :
               DOMAIN chunk_results[w][i].profile_data \in {{}, FieldNames}
        /\ \A i \in 1..Len(result_queue[w]) :
               DOMAIN result_queue[w][i] \in {{}, FieldNames}

\* A chunk whose first link ended with {} and whose second link, after a
\* failed attempt, got a record with null fields.
C17_Witness_EmptyThenRecord ==
    \E w \in Workers :
        /\ Len(chunk_results[w]) = 2
        /\ chunk_results[w][1].profile_data = EmptyRecord
        /\ DOMAIN chunk_results[w][2].profile_data = FieldNames
        /\ chunk_results[w][2].profile_data["Email"] = None
        /\ chunk_results[w][2].profile_data["Name"] # None
        /\ attempts[w] >= 2

\* C18 as stated: every non-empty profile_data of a LinkResult is the record
\* of the page of that LinkResult's own link, in every interleaving with the
\* helpers abandoned by earlier timeouts.
C18_Original_RecordFromOwnPage ==
    \A w \in Workers :
        \A i \in 1..Len(chunk_results[w]) :
            Truthy(chunk_results[w][i].profile_data) =>
                chunk_results[w][i].profile_data
                    = ProfileOf(chunk_results[w][i].profile_link)

\* Steps left in the retry loop of the current link: the attempts not yet
\* counted, then the position inside the iteration.
C19_Rank(pc, count) ==
    (MAX_RETRIES_PER_LINK - count) * 4
        + (CASE pc = "refresh" -> 3 [] pc = "fetch" -> 2 [] pc = "wait" -> 1 [] OTHER -> 0)

C19_Bounds(w) ==
    /\ retry_count[w] \in 0..MAX_RETRIES_PER_LINK
    /\ attempts[w] <= MAX_RETRIES_PER_LINK
    /\ refreshes[w] <= MAX_RETRIES_PER_LINK - 1
    /\ wpc[w] \in {"fetch", "wait", "shot", "refresh"} =>
           /\ retry_count[w] < MAX_RETRIES_PER_LINK
           /\ attempts[w] = retry_count[w] + (IF wpc[w] \in {"wait", "shot"} THEN 1 ELSE 0)
           /\ refreshes[w] = retry_count[w] - (IF wpc[w] = "refresh" THEN 1 ELSE 0)
    /\ outcome[w] = "exhausted" =>
           /\ attempts[w] = MAX_RETRIES_PER_LINK
           /\ refreshes[w] = MAX_RETRIES_PER_LINK - 1

\* C19: the retry counter stays in 0..MAX_RETRIES_PER_LINK; a link gets at
\* most MAX_RETRIES_PER_LINK attempts and MAX_RETRIES_PER_LINK - 1 session
\* recreations, none after the final failed attempt; and every step of the
\* Worker inside the retry loop either leaves the loop or brings it closer to
\* its end, the counter growing from one iteration to the next.
C19_RetryLoopBounded ==
    /\ [](\A w \in Workers : C19_Bounds(w))
    /\ [][\A w \in Workers :
             (Workers' = Workers /\ InRetryLoop(w) /\ InRetryLoop(w)'
                  /\ <<wpc[w], retry_count[w]>> # <<wpc'[w], retry_count'[w]>>)
                 => /\ C19_Rank(wpc'[w], retry_count'[w]) < C19_Rank(wpc[w], retry_count[w])
                    /\ wpc'[w] = "fetch" => retry_count'[w] = attempts[w]]_vars

\* The third attempt of a link is running after two recreations.
C19_Witness_LastAttempt ==
    \E w \in Workers :
        /\ wpc[w] = "wait"
        /\ retry_count[w] = MAX_RETRIES_PER_LINK - 1
        /\ attempts[w] = MAX_RETRIES_PER_LINK
        /\ refreshes[w] = MAX_RETRIES_PER_LINK - 1

====
